---- MODULE Spec2Model ----
(***************************************************************************)
(* Model of the medbot backend: DiagnosisSystem (backend/diagnose.py) and  *)
(* the FastAPI handlers that call it (backend/app.py).                     *)
(*                                                                         *)
(* Strings that the code strips, lowercases or searches (vocabulary lines, *)
(* reported symptoms, medicine names, OCR text) are sequences of one-      *)
(* character strings.  Strings that the code only compares for equality or *)
(* copies (disease names, table cells, literals) are TLA+ strings, which   *)
(* are case-sensitive like Python's.  Probabilities are integers, in units *)
(* of 1/ProbTotal.                                                         *)
(***************************************************************************)
EXTENDS Integers, Sequences, FiniteSets, TLC

VARIABLES
    fs,               \* files DiagnosisSystem.__init__ reads
    phase,            \* "boot", "serving" or "crashed" (import of app.py failed)
    symptom_columns,  \* self.symptom_columns
    diseases_df,      \* self.diseases_df
    medicines_df,     \* self.medicines_df
    model,            \* self.model
    tie_rank,         \* how this build's np.argsort orders equal keys
    last,             \* the locals and the response of the latest request
    pinned            \* an earlier request and its response, kept for comparison

vars == <<fs, phase, symptom_columns, diseases_df, medicines_df, model,
          tie_rank, last, pinned>>

store == <<symptom_columns, diseases_df, medicines_df, model>>

-----------------------------------------------------------------------------
(* Bounds of the model *)

MaxVocab == 2       \* symptom vocabulary size, SpecEncode
MaxSymptoms == 2    \* length of a reported symptom list, SpecEncode
MaxClasses == 4     \* number of classifier classes, SpecRank
ProbTotal == 4      \* a probability is k/ProbTotal
MaxRows == 2        \* rows of a reference table, SpecJoin
MaxTextLen == 3     \* length of an OCR text, SpecMatch
MaxCatalog == 2     \* rows of the medicine catalog, SpecMatch

-----------------------------------------------------------------------------
(* Python str operations *)

Whitespace == {" ", "\n"}

LowerChar(c) ==
    CASE c = "P" -> "p"
      [] c = "A" -> "a"
      [] c = "F" -> "f"
      [] OTHER -> c

\* str.lower()
Lower(s) == [i \in 1..Len(s) |-> LowerChar(s[i])]

RECURSIVE LStrip(_)
LStrip(s) ==
    IF s # <<>> /\ Head(s) \in Whitespace THEN LStrip(Tail(s)) ELSE s

RECURSIVE RStrip(_)
RStrip(s) ==
    IF s # <<>> /\ s[Len(s)] \in Whitespace
    THEN RStrip(SubSeq(s, 1, Len(s) - 1))
    ELSE s

\* str.strip()
Strip(s) == RStrip(LStrip(s))

\* name in text (substring test; the empty string is in every text)
Contains(name, text) ==
    \E i \in 0..(Len(text) - Len(name)) :
        SubSeq(text, i + 1, i + Len(name)) = name

\* x in list
InList(x, list) == \E i \in 1..Len(list) : list[i] = x

\* list.index(x), defined when x is in the list
Index(list, x) ==
    CHOOSE i \in 1..Len(list) :
        list[i] = x /\ \A j \in 1..(i - 1) : list[j] # x

RECURSIVE SumSeq(_)
SumSeq(s) == IF s = <<>> THEN 0 ELSE Head(s) + SumSeq(Tail(s))

Reverse(s) == [i \in 1..Len(s) |-> s[Len(s) + 1 - i]]

Max(a, b) == IF a >= b THEN a ELSE b

-----------------------------------------------------------------------------
(* Reference data: a table is a header and rows; a row maps each column  *)
(* of the header to a cell.                                              *)

DiseaseColumns == {"name", "description", "severity", "contagious", "precautions"}
MedicineColumns == {"name", "diagnosis", "usage", "dosage", "side_effects"}

DiseaseRow(name, description) ==
    [name |-> name, description |-> description, severity |-> "Mild",
     contagious |-> "Yes", precautions |-> "Rest"]

MedicineRow(name, diagnosis) ==
    [name |-> name, diagnosis |-> diagnosis, usage |-> "Oral",
     dosage |-> "500mg", side_effects |-> "Nausea"]

\* a table of the given rows (all with the same columns)
Table(columns, rows) == [columns |-> columns, rows |-> rows]

\* the table without one column
DropColumn(t, col) ==
    [columns |-> t.columns \ {col},
     rows |-> [i \in 1..Len(t.rows) |->
                  [c \in (t.columns \ {col}) |-> t.rows[i][c]]]]

File(state, content) == [state |-> state, content |-> content]

NoTable == Table({}, <<>>)
NoModel == [classes_ |-> <<>>, n_features_in_ |-> 0, base |-> <<>>]

\* train_model.py writes one line per feature column
WriteColumns(cols) == [i \in 1..Len(cols) |-> cols[i] \o <<"\n">>]

-----------------------------------------------------------------------------
(* DiagnosisSystem.__init__ *)

\* self.symptom_columns = [line.strip() for line in f]
ReadColumns(lines) == [i \in 1..Len(lines) |-> Strip(lines[i])]

\* DataFrame.empty: some axis has length 0
IsEmpty(t) == t.columns = {} \/ t.rows = <<>>

\* the exception __init__ raises on the files f, or "" when it returns
InitRaises(f) ==
    IF f.model_file.state = "missing" \/ f.columns_file.state = "missing"
    THEN "FileNotFoundError"
    ELSE IF f.model_file.state # "ok" THEN "UnpicklingError"
    ELSE IF f.diseases_csv.state = "missing" THEN "FileNotFoundError"
    ELSE IF f.diseases_csv.state # "ok" THEN "ParserError"
    ELSE IF f.medicines_csv.state = "missing" THEN "FileNotFoundError"
    ELSE IF f.medicines_csv.state # "ok" THEN "ParserError"
    ELSE IF IsEmpty(f.diseases_csv.content) \/ IsEmpty(f.medicines_csv.content)
    THEN "ValueError"
    ELSE ""

-----------------------------------------------------------------------------
(* DiagnosisSystem.diagnose *)

TopK == 3

zeros(n) == [i \in 1..n |-> 0]

\* mutant of EncodeLoop: features[idx] += 1
RECURSIVE EncodeLoopCount(_, _)
EncodeLoopCount(features, symptoms) ==
    IF symptoms = <<>> THEN features
    ELSE LET symptom == Head(symptoms)
             next == IF InList(symptom, symptom_columns)
                     THEN [features EXCEPT ![Index(symptom_columns, symptom)] = @ + 1]
                     ELSE features
         IN  EncodeLoopCount(next, Tail(symptoms))

\* the loop over the reported symptoms, from the features built so far
RECURSIVE EncodeLoop(_, _)
EncodeLoop(features, symptoms) ==
    IF symptoms = <<>> THEN features
    ELSE LET symptom == Head(symptoms)
             next == IF InList(symptom, symptom_columns)
                     THEN [features EXCEPT ![Index(symptom_columns, symptom)] = 1]
                     ELSE features
         IN  EncodeLoop(next, Tail(symptoms))

\* mutant of FreshFeatures: one buffer, allocated once and used by every request
SharedFeatures ==
    IF Len(last.features) = Len(symptom_columns)
    THEN last.features
    ELSE zeros(Len(symptom_columns))

\* the buffer the loop starts from
FreshFeatures == zeros(Len(symptom_columns))

Encode(symptoms) == EncodeLoop(FreshFeatures, symptoms)

\* self.model.predict_proba([features])[0]: the classifier is a black box;
\* it rejects a vector of the wrong length and otherwise returns a
\* distribution over classes_ that depends on the features
PredictRaises(features) == Len(features) # model.n_features_in_

predict_proba(features) ==
    LET n == Len(model.base)
        k == SumSeq(features)
    IN  [i \in 1..n |-> model.base[((i - 1 + k) % n) + 1]]

\* np.argsort(probs): indices by ascending probability; the default sort is
\* not stable, equal keys come in the order this build gives them
ArgSortBefore(probs, j, i) ==
    \/ probs[j] < probs[i]
    \/ probs[j] = probs[i] /\ tie_rank[j] < tie_rank[i]

argsort(probs) ==
    LET n == Len(probs)
        Pos(i) == 1 + Cardinality({j \in 1..n : ArgSortBefore(probs, j, i)})
    IN  [k \in 1..n |-> CHOOSE i \in 1..n : Pos(i) = k]

\* mutant of TopOf: order[-3:], the reversal forgotten
TopOfAscending(order) == SubSeq(order, Max(1, Len(order) - TopK + 1), Len(order))

\* order[-3:][::-1]
TopOf(order) == Reverse(SubSeq(order, Max(1, Len(order) - TopK + 1), Len(order)))

\* mutant of top_indices: np.argsort(-probs)[:3]
top_indices_negated(probs) ==
    LET order == argsort([i \in 1..Len(probs) |-> 0 - probs[i]])
    IN  SubSeq(order, 1, IF Len(order) < TopK THEN Len(order) ELSE TopK)

top_indices(probs) == TopOf(argsort(probs))

possible_diagnoses(probs) ==
    LET top == top_indices(probs)
    IN  [k \in 1..Len(top) |->
            [disease |-> model.classes_[top[k]], confidence |-> probs[top[k]]]]

\* mutant of Placeholder: the literals in lower case
PlaceholderLower(primary) ==
    [name |-> primary,
     description |-> "information not available",
     severity |-> "unknown",
     contagious |-> "unknown",
     precautions |-> "consult a healthcare professional"]

Placeholder(primary) ==
    [name |-> primary,
     description |-> "Information not available",
     severity |-> "Unknown",
     contagious |-> "Unknown",
     precautions |-> "Consult a healthcare professional"]

\* diseases_df[diseases_df['name'] == primary]
DiseaseMatches(primary) ==
    LET Test(row) == row["name"] = primary
    IN  SelectSeq(diseases_df.rows, Test)

FoldName(name) ==
    CASE name = "Flu" -> "flu"
      [] name = "Cold" -> "cold"
      [] OTHER -> name

\* mutant of MedicineMatches: the comparison ignores case
MedicineMatchesAnyCase(primary) ==
    LET Test(row) == FoldName(row["diagnosis"]) = FoldName(primary)
    IN  SelectSeq(medicines_df.rows, Test)

\* medicines_df[medicines_df['diagnosis'] == primary].to_dict('records')
MedicineMatches(primary) ==
    LET Test(row) == row["diagnosis"] = primary
    IN  SelectSeq(medicines_df.rows, Test)

\* The run of diagnose(symptoms): its locals, the exceptions it caught and
\* replaced by a substitute value, the exception that leaves it ("" when it
\* returns) and the result it returns.
diagnose(symptoms) ==
    LET features == Encode(symptoms)
    IN  IF PredictRaises(features)
        THEN [features |-> features, invoked |-> TRUE, probs |-> <<>>,
              top |-> <<>>, absorbed |-> {}, escaped |-> "ValueError",
              body |-> <<>>]
        ELSE
        LET probs == predict_proba(features)
            possible == possible_diagnoses(probs)
            primary == possible[1].disease
            no_name == "name" \notin diseases_df.columns
            no_diag == "diagnosis" \notin medicines_df.columns
            miss == ~no_name /\ DiseaseMatches(primary) = <<>>
        IN  IF no_name
            THEN [features |-> features, invoked |-> TRUE, probs |-> probs,
                  top |-> top_indices(probs), absorbed |-> {},
                  escaped |-> "KeyError", body |-> <<>>]
            ELSE
            [features |-> features, invoked |-> TRUE, probs |-> probs,
             top |-> top_indices(probs),
             absorbed |-> (IF miss THEN {"IndexError"} ELSE {})
                          \cup (IF no_diag THEN {"KeyError"} ELSE {}),
             escaped |-> "",
             body |-> <<[diagnosis |-> primary,
                         confidence |-> possible[1].confidence,
                         possible_diagnoses |-> possible,
                         disease_info |-> IF miss THEN Placeholder(primary)
                                          ELSE DiseaseMatches(primary)[1],
                         medicines |-> IF no_diag THEN <<>>
                                       ELSE MedicineMatches(primary)]>>]

-----------------------------------------------------------------------------
(* app.py: the handlers.  A trace is the request, the locals of its run   *)
(* and the response.                                                      *)

NoUpload == [kind |-> "", text |-> <<>>]

Trace(op, symptoms, upload, run, status) ==
    [op |-> op, symptoms |-> symptoms, upload |-> upload,
     features |-> run.features, invoked |-> run.invoked, probs |-> run.probs,
     top |-> run.top, absorbed |-> run.absorbed, escaped |-> run.escaped,
     status |-> status, body |-> run.body]

NotRun(escaped) ==
    [features |-> <<>>, invoked |-> FALSE, probs |-> <<>>, top |-> <<>>,
     absorbed |-> {}, escaped |-> escaped, body |-> <<>>]

NoTrace == Trace("none", <<>>, NoUpload, NotRun(""), 0)

\* the request a trace answers
Request(t) == <<t.op, t.symptoms, t.upload>>

\* the HTTPException raised for no symptoms is itself caught by the handler's
\* except Exception and answered as 500
diagnose_endpoint(symptoms) ==
    IF symptoms = <<>>
    THEN Trace("diagnose", symptoms, NoUpload, NotRun("HTTPException(400)"), 500)
    ELSE LET run == diagnose(symptoms)
         IN  Trace("diagnose", symptoms, NoUpload, run,
                   IF run.escaped = "" THEN 200 ELSE 500)

\* text.strip().lower()
CleanText(text) == Lower(Strip(text))

\* mutant of NameMatches: the name is not lowercased
NameMatchesExact(text) ==
    LET Test(row) == Contains(row["name"], text)
    IN  SelectSeq(medicines_df.rows, Test)

\* the rows whose lowercased name is in the text, in catalog order
NameMatches(text) ==
    LET Test(row) == Contains(Lower(row["name"]), text)
    IN  SelectSeq(medicines_df.rows, Test)

match_text(raw) ==
    LET text == CleanText(raw)
        matches == NameMatches(text)
    IN  IF "name" \notin medicines_df.columns /\ medicines_df.rows # <<>>
        THEN NotRun("KeyError")
        ELSE IF matches = <<>>
        THEN [NotRun("") EXCEPT !.body =
                 <<[status |-> "not_found",
                    message |-> "No medicine information found in the image",
                    extracted_text |-> text]>>]
        ELSE [NotRun("") EXCEPT !.body =
                 <<[status |-> "success", medicines |-> matches,
                    extracted_text |-> text]>>]

analyze_medicine(upload) ==
    LET run == CASE upload.kind = "not_image" -> NotRun("HTTPException(400)")
                 [] upload.kind = "undecodable" -> NotRun("HTTPException(400)")
                 [] upload.kind = "ocr_error" -> NotRun("TesseractError")
                 [] OTHER -> match_text(upload.text)
    IN  Trace("analyze_medicine", <<>>, upload, run,
              IF run.escaped = "" THEN 200 ELSE 500)

-----------------------------------------------------------------------------
(* Actions *)

\* diagnosis_system = DiagnosisSystem() while app.py is imported
Startup ==
    /\ phase = "boot"
    /\ IF InitRaises(fs) # ""
       THEN /\ phase' = "crashed"
            /\ UNCHANGED store
       ELSE /\ phase' = "serving"
            /\ model' = fs.model_file.content
            /\ symptom_columns' = ReadColumns(fs.columns_file.content)
            /\ diseases_df' = fs.diseases_csv.content
            /\ medicines_df' = fs.medicines_csv.content
    /\ UNCHANGED <<fs, tie_rank, last, pinned>>

\* a request is answered; pin says whether it is kept for comparison
Respond(trace, pin) ==
    /\ last' = trace
    /\ pinned' = IF pin /\ pinned = <<>> THEN <<trace>> ELSE pinned
    /\ UNCHANGED <<fs, phase, store, tie_rank>>

\* POST /diagnose
DiagnoseRequest(symptoms, pin) ==
    /\ phase = "serving"
    /\ Respond(diagnose_endpoint(symptoms), pin)

\* DiagnosisSystem.diagnose called directly, as main() does
DirectDiagnose(symptoms, pin) ==
    /\ phase = "serving"
    /\ Respond(Trace("direct", symptoms, NoUpload, diagnose(symptoms), 0), pin)

\* POST /analyze_medicine
AnalyzeMedicine(upload, pin) ==
    /\ phase = "serving"
    /\ Respond(analyze_medicine(upload), pin)

-----------------------------------------------------------------------------
(* Data the specifications draw from *)

Fever == <<"f", "v">>
Cough == <<"c">>
SoreThroat == <<" ", "s">>   \* a feature column written with a leading blank
Unknown == <<"x">>

Para == <<"P", "a">>
Asp == <<"A">>

\* classes_ is sorted (np.unique of the training labels)
ClassNames == <<"Cold", "Flu", "Malaria", "Migraine", "flu">>

Identity(n) == [i \in 1..n |-> i]

\* sequences over S of length at most n
SeqUpTo(S, n) == UNION {[1..k -> S] : k \in 0..n}

NoRepeat(s) == \A i, j \in 1..Len(s) : i # j => s[i] # s[j]

\* distributions over n classes
Dists(n) == {p \in [1..n -> 0..ProbTotal] : SumSeq(p) = ProbTotal}

GoodDiseases ==
    Table(DiseaseColumns, <<DiseaseRow("Flu", "d1"), DiseaseRow("Flu", "d2")>>)

GoodMedicines ==
    Table(MedicineColumns, <<MedicineRow(Para, "Flu"), MedicineRow(Asp, "Cold")>>)

Clf(n, n_features, base) ==
    [classes_ |-> SubSeq(ClassNames, 1, n), n_features_in_ |-> n_features,
     base |-> base]

ServiceModelFiles ==
    {File("missing", NoModel), File("corrupt", NoModel),
     File("ok", Clf(2, 2, <<1, 3>>)), File("ok", Clf(3, 1, <<1, 1, 2>>))}

ServiceColumnsFiles ==
    {File("missing", <<>>), File("ok", <<>>),
     File("ok", WriteColumns(<<Fever>>)),
     File("ok", WriteColumns(<<Fever, Cough>>))}

ServiceDiseaseFiles ==
    {File("missing", NoTable), File("malformed", NoTable),
     File("ok", Table(DiseaseColumns, <<>>)),
     File("ok", GoodDiseases),
     File("ok", Table(DiseaseColumns, <<DiseaseRow("Cold", "d1")>>)),
     File("ok", DropColumn(GoodDiseases, "name"))}

ServiceMedicineFiles ==
    {File("missing", NoTable), File("malformed", NoTable),
     File("ok", Table(MedicineColumns, <<>>)),
     File("ok", GoodMedicines),
     File("ok", DropColumn(GoodMedicines, "diagnosis")),
     File("ok", DropColumn(GoodMedicines, "name"))}

ServiceSymptomLists ==
    {<<>>, <<Fever>>, <<Unknown>>, <<Cough, Fever>>, <<Fever, Fever>>}

ServiceDirectLists == {<<>>, <<Fever>>, <<Unknown, Cough>>}

ServiceUploads ==
    {[kind |-> "not_image", text |-> <<>>],
     [kind |-> "undecodable", text |-> <<>>],
     [kind |-> "ocr_error", text |-> <<>>],
     [kind |-> "image", text |-> <<" ", "p", "A", "\n">>],
     [kind |-> "image", text |-> <<"x">>]}

-----------------------------------------------------------------------------
(* Spec: the service from the import of app.py on *)

Init ==
    /\ fs \in [model_file : ServiceModelFiles,
               columns_file : ServiceColumnsFiles,
               diseases_csv : ServiceDiseaseFiles,
               medicines_csv : ServiceMedicineFiles]
    /\ phase = "boot"
    /\ symptom_columns = <<>>
    /\ diseases_df = NoTable
    /\ medicines_df = NoTable
    /\ model = NoModel
    /\ LET n == Len(fs.model_file.content.classes_)
       IN  tie_rank \in {Identity(n), Reverse(Identity(n))}
    /\ last = NoTrace
    /\ pinned = <<>>

Diagnose == \E symptoms \in ServiceSymptomLists, pin \in BOOLEAN :
               DiagnoseRequest(symptoms, pin)

Direct == \E symptoms \in ServiceDirectLists, pin \in BOOLEAN :
             DirectDiagnose(symptoms, pin)

Analyze == \E upload \in ServiceUploads, pin \in BOOLEAN :
              AnalyzeMedicine(upload, pin)

Next == Startup \/ Diagnose \/ Direct \/ Analyze

Spec == Init /\ [][Next]_vars

\* a store loaded by a successful startup, for the specifications below
Loaded(columns, clf, diseases, medicines) ==
    /\ fs = [model_file |-> File("ok", clf),
             columns_file |-> File("ok", WriteColumns(columns)),
             diseases_csv |-> File("ok", diseases),
             medicines_csv |-> File("ok", medicines)]
    /\ InitRaises(fs) = ""
    /\ phase = "serving"
    /\ symptom_columns = ReadColumns(fs.columns_file.content)
    /\ model = clf
    /\ diseases_df = diseases
    /\ medicines_df = medicines
    /\ last = NoTrace
    /\ pinned = <<>>

-----------------------------------------------------------------------------
(* SpecEncode: diagnose over vocabularies and symptom lists *)

ColumnNames == {Fever, Cough, SoreThroat}

SymptomNames == {Fever, Cough, Strip(SoreThroat), Unknown}

InitEncode ==
    /\ \E columns \in SeqUpTo(ColumnNames, MaxVocab) :
          /\ NoRepeat(columns)
          /\ Loaded(columns, Clf(2, Max(1, Len(columns)), <<1, 3>>),
                    GoodDiseases, GoodMedicines)
    /\ tie_rank = Identity(2)

NextEncode == \E symptoms \in SeqUpTo(SymptomNames, MaxSymptoms) :
                 DirectDiagnose(symptoms, FALSE)

SpecEncode == InitEncode /\ [][NextEncode]_vars

-----------------------------------------------------------------------------
(* SpecRank: diagnose over classifier outputs and argsort tie orders *)

InitRank ==
    /\ \E n \in 1..MaxClasses : \E base \in Dists(n) :
          /\ Loaded(<<Fever>>, Clf(n, 1, base), GoodDiseases, GoodMedicines)
          /\ tie_rank \in Permutations(1..n)

NextRank == \E symptoms \in {<<Fever>>, <<Unknown>>} :
               DiagnoseRequest(symptoms, FALSE)

SpecRank == InitRank /\ [][NextRank]_vars

-----------------------------------------------------------------------------
(* SpecJoin: diagnose over disease and medicine tables *)

JoinDiseaseRows ==
    {DiseaseRow("Flu", "d1"), DiseaseRow("Flu", "d2"),
     DiseaseRow("flu", "d1"), DiseaseRow("Cold", "d1")}

JoinMedicineRows ==
    {MedicineRow(Para, "Flu"), MedicineRow(Asp, "Flu"),
     MedicineRow(Para, "flu"), MedicineRow(Para, "Cold")}

JoinBases == {<<0, 3, 0, 0, 1>>, <<0, 0, 1, 0, 3>>}

InitJoin ==
    /\ \E diseases \in SeqUpTo(JoinDiseaseRows, MaxRows) \ {<<>>},
          medicines \in SeqUpTo(JoinMedicineRows, MaxRows) \ {<<>>},
          base \in JoinBases :
          Loaded(<<Fever>>, Clf(5, 1, base),
                 Table(DiseaseColumns, diseases),
                 Table(MedicineColumns, medicines))
    /\ tie_rank = Identity(5)

NextJoin == \E symptoms \in {<<Fever>>, <<Cough>>} :
               DiagnoseRequest(symptoms, FALSE)

SpecJoin == InitJoin /\ [][NextJoin]_vars

-----------------------------------------------------------------------------
(* SpecMatch: analyze_medicine over catalogs and OCR texts *)

MatchNames == {Para, <<"a">>, <<"a", " ">>}

TextChars == {"P", "a", " "}

InitMatch ==
    /\ \E names \in SeqUpTo(MatchNames, MaxCatalog) \ {<<>>} :
          Loaded(<<Fever>>, Clf(2, 1, <<1, 3>>), GoodDiseases,
                 Table(MedicineColumns,
                       [i \in 1..Len(names) |-> MedicineRow(names[i], "Flu")]))
    /\ tie_rank = Identity(2)

NextMatch == \E text \in SeqUpTo(TextChars, MaxTextLen) :
                AnalyzeMedicine([kind |-> "image", text |-> text], FALSE)

SpecMatch == InitMatch /\ [][NextMatch]_vars

-----------------------------------------------------------------------------
(* Claims *)

Range(s) == {s[i] : i \in 1..Len(s)}

Min(a, b) == IF a <= b THEN a ELSE b

\* the response body of the latest request, when it has one
Body == last.body[1]

Diagnosed == last.op \in {"diagnose", "direct"} /\ last.body # <<>>

\* the index in rows of the k-th row satisfying Test
KthIndex(rows, Test(_), k) ==
    CHOOSE i \in 1..Len(rows) :
        Test(rows[i]) /\ Cardinality({j \in 1..i : Test(rows[j])}) = k

\* picked is exactly the rows satisfying Test, in the order of rows
ExactlyRows(picked, rows, Test(_)) ==
    /\ Len(picked) = Cardinality({i \in 1..Len(rows) : Test(rows[i])})
    /\ \A k \in 1..Len(picked) : picked[k] = rows[KthIndex(rows, Test, k)]

\* C1: a diagnosis request with an empty symptom list gets an
\* invalid-request error (status 400 from the handler, an exception from a
\* direct call) and never reaches the classifier.
C1_EmptyRejected ==
    (last.op \in {"diagnose", "direct"} /\ last.symptoms = <<>>) =>
        /\ ~last.invoked
        /\ last.op = "diagnose" => last.status = 400
        /\ last.op = "direct" => last.escaped # ""

\* C2: possible_diagnoses has exactly min(3, n) entries, no class twice,
\* confidences in non-increasing order, and no unlisted class has a higher
\* probability than a listed one.
C2_TopThree ==
    Diagnosed =>
        LET pd == Body.possible_diagnoses
            n == Len(model.classes_)
            listed == {pd[k].disease : k \in 1..Len(pd)}
        IN  /\ Len(pd) = Min(3, n)
            /\ \A a, b \in 1..Len(pd) : a # b => pd[a].disease # pd[b].disease
            /\ \A a, b \in 1..Len(pd) : a < b => pd[a].confidence >= pd[b].confidence
            /\ \A k \in 1..Len(pd) : \E i \in 1..n :
                  model.classes_[i] = pd[k].disease /\ last.probs[i] = pd[k].confidence
            /\ \A i \in 1..n : model.classes_[i] \notin listed =>
                  \A k \in 1..Len(pd) : last.probs[i] <= pd[k].confidence
            /\ Body.diagnosis = pd[1].disease
            /\ Body.confidence = pd[1].confidence

C2_Witness ==
    /\ Diagnosed
    /\ Len(model.classes_) = 4
    /\ Len(Body.possible_diagnoses) = 3
    /\ Body.possible_diagnoses[1].confidence > Body.possible_diagnoses[2].confidence
    /\ Body.possible_diagnoses[3].confidence > 0

\* C3 as claimed: among classes of equal probability the one with the
\* smaller index in model.classes_ comes first.
C3_TiesEarlierClassFirst ==
    Diagnosed =>
        \A a, b \in 1..Len(last.top) :
            (a < b /\ last.probs[last.top[a]] = last.probs[last.top[b]])
                => last.top[a] < last.top[b]

\* C3 as amended: classes of equal probability come in the reverse of the
\* order np.argsort gave them (under a stable sort, larger index first), and
\* the primary diagnosis is the tied class argsort placed last.
C3_TiesReverseArgsort ==
    Diagnosed =>
        /\ \A a, b \in 1..Len(last.top) :
              (a < b /\ last.probs[last.top[a]] = last.probs[last.top[b]])
                  => /\ tie_rank[last.top[a]] > tie_rank[last.top[b]]
                     /\ tie_rank = Identity(Len(tie_rank)) => last.top[a] > last.top[b]
        /\ \A i \in 1..Len(last.probs) :
              last.probs[i] = last.probs[last.top[1]]
                  => tie_rank[i] <= tie_rank[last.top[1]]
        /\ Body.diagnosis = model.classes_[last.top[1]]

C3_Witness ==
    /\ Diagnosed
    /\ Len(last.top) = 3
    /\ last.probs[last.top[1]] = last.probs[last.top[2]]
    /\ tie_rank = Identity(Len(tie_rank))
    /\ last.top[1] > last.top[2]

\* C4: the feature vector has the length of the vocabulary and holds 1
\* exactly at the positions of the reported symptoms, whatever their order
\* and multiplicity; unknown identifiers raise no error.
C4_FeatureVector ==
    last.op = "direct" =>
        LET reported == Range(last.symptoms)
        IN  /\ Len(last.features) = Len(symptom_columns)
            /\ \A i \in 1..Len(symptom_columns) :
                  last.features[i] = IF symptom_columns[i] \in reported THEN 1 ELSE 0
            /\ Cardinality({i \in 1..Len(last.features) : last.features[i] # 0})
                  = Cardinality(reported \cap Range(symptom_columns))
            /\ symptom_columns # <<>> => last.escaped = ""

C4_Witness ==
    /\ last.op = "direct"
    /\ Len(symptom_columns) = 2
    /\ last.symptoms = <<Unknown, symptom_columns[2]>>
    /\ last.features = <<0, 1>>
    /\ last.escaped = ""

\* C5 as claimed: on a miss disease_info is the placeholder in lower case.
C5_PlaceholderAsClaimed ==
    (Diagnosed /\ \A i \in 1..Len(diseases_df.rows) :
                      diseases_df.rows[i]["name"] # Body.diagnosis) =>
        Body.disease_info =
            [name |-> Body.diagnosis,
             description |-> "information not available",
             severity |-> "unknown",
             contagious |-> "unknown",
             precautions |-> "consult a healthcare professional"]

\* C5 as amended: a diagnosis whose primary has no row in the disease table
\* still returns, with the placeholder "Information not available" /
\* "Unknown" / "Unknown" / "Consult a healthcare professional"; otherwise
\* disease_info is the first matching row.
C5_Placeholder ==
    (last.op = "diagnose" /\ last.symptoms # <<>>) =>
        /\ last.status = 200
        /\ last.body # <<>>
        /\ LET hits == {i \in 1..Len(diseases_df.rows) :
                           diseases_df.rows[i]["name"] = Body.diagnosis}
           IN  IF hits = {}
               THEN Body.disease_info =
                        [name |-> Body.diagnosis,
                         description |-> "Information not available",
                         severity |-> "Unknown",
                         contagious |-> "Unknown",
                         precautions |-> "Consult a healthcare professional"]
               ELSE \E i \in hits :
                        /\ \A j \in hits : i <= j
                        /\ Body.disease_info = diseases_df.rows[i]

C5_Witness ==
    /\ Diagnosed
    /\ Body.diagnosis = "flu"
    /\ \E i \in 1..Len(diseases_df.rows) : diseases_df.rows[i]["name"] = "Flu"
    /\ Body.disease_info["description"] = "Information not available"

\* C6: medicines is exactly the rows of the medicine table whose diagnosis
\* is string-equal to the primary diagnosis; "Flu" is not "flu"; no match
\* gives an empty list and the diagnosis still succeeds.
C6_MedicinesExact ==
    (last.op = "diagnose" /\ last.symptoms # <<>>) =>
        /\ last.status = 200
        /\ last.body # <<>>
        /\ LET Same(row) == row["diagnosis"] = Body.diagnosis
           IN  ExactlyRows(Body.medicines, medicines_df.rows, Same)

C6_Witness ==
    /\ Diagnosed
    /\ Body.diagnosis = "flu"
    /\ Len(medicines_df.rows) = 2
    /\ medicines_df.rows[1]["diagnosis"] = "Flu"
    /\ medicines_df.rows[2]["diagnosis"] = "flu"
    /\ Body.medicines = <<medicines_df.rows[2]>>

\* C7: the matcher returns exactly the catalog rows whose lowercased name is
\* a substring of the trimmed, lowercased text, in catalog order; "success"
\* iff there is one, else "not_found"; extracted_text is the trimmed,
\* lowercased text.
C7_Matcher ==
    (last.op = "analyze_medicine" /\ last.upload.kind = "image") =>
        /\ last.status = 200
        /\ last.body # <<>>
        /\ LET raw == last.upload.text
               text == Body.extracted_text
               In(row) == Contains(Lower(row["name"]), text)
               hits == {i \in 1..Len(medicines_df.rows) : In(medicines_df.rows[i])}
           IN  /\ \E lead, trail \in 0..Len(raw) :
                     /\ lead + trail + Len(text) = Len(raw)
                     /\ \A k \in 1..lead : raw[k] \in Whitespace
                     /\ \A k \in (Len(raw) - trail + 1)..Len(raw) : raw[k] \in Whitespace
                     /\ text # <<>> => /\ raw[lead + 1] \notin Whitespace
                                       /\ raw[Len(raw) - trail] \notin Whitespace
                     /\ \A k \in 1..Len(text) : text[k] = LowerChar(raw[lead + k])
               /\ Body.status = IF hits = {} THEN "not_found" ELSE "success"
               /\ hits # {} => ExactlyRows(Body.medicines, medicines_df.rows, In)

C7_Witness ==
    /\ last.op = "analyze_medicine"
    /\ last.body # <<>>
    /\ Body.status = "success"
    /\ last.upload.text = <<" ", "P", "a">>
    /\ Body.extracted_text = <<"p", "a">>
    /\ Len(medicines_df.rows) = 2
    /\ Body.medicines = <<medicines_df.rows[2]>>
    /\ medicines_df.rows[2]["name"] = Para

\* C8: the service serves only when every source was present and readable,
\* no table and not the vocabulary is empty, and every required column is
\* there; a missing column is never met while serving a request.
C8_StartupValidates ==
    phase = "serving" =>
        /\ symptom_columns # <<>>
        /\ diseases_df.rows # <<>>
        /\ medicines_df.rows # <<>>
        /\ DiseaseColumns \subseteq diseases_df.columns
        /\ MedicineColumns \subseteq medicines_df.columns
        /\ last.escaped # "KeyError"
        /\ "KeyError" \notin last.absorbed

\* C9: diagnose replaces only lookup misses by a substitute value; every
\* other failure is reported and no result is returned.
C9_OnlyMissesAbsorbed ==
    last.op \in {"diagnose", "direct"} =>
        /\ last.absorbed \subseteq {"IndexError"}
        /\ last.escaped # "" => (last.body = <<>> /\ last.status # 200)

\* C10: serving leaves the vocabulary, the tables and the classifier
\* unchanged, and a request answered again after any other requests gets the
\* answer it got before.
C10_ReadOnlyRepeatable ==
    /\ [][phase = "serving" => store' = store]_vars
    /\ [](pinned # <<>> /\ Request(last) = Request(pinned[1]) => last = pinned[1])

C10_Witness ==
    /\ pinned # <<>>
    /\ Request(last) = Request(pinned[1])
    /\ last.op = "diagnose"
    /\ last.body # <<>>
    /\ SumSeq(last.features) = 0
    /\ Len(last.features) = 2

====
